---- MODULE Spec2Model ----
(***************************************************************************)
(* Blogicum (blog/views.py, blog/utils.py, blog/forms.py, blog/urls.py):   *)
(* the request handlers of the blog application as a state machine over    *)
(* the database rows (posts, comments, category flags), the clock, the     *)
(* mail outbox and the response of the request handled last.  The account  *)
(* views (edit_profile, password reset), test_email and the static pages   *)
(* touch none of these rows and are left out.                              *)
(***************************************************************************)
EXTENDS Integers, Sequences, FiniteSets, TLC

\* ------------------------------------------------------------------ bounds

MaxPosts == 2
MaxComments == 1
MaxTime == 1
MaxListed == 25
MaxPage == 4

\* ------------------------------------------------------- program constants

\* PostListView.paginate_by
paginate_by == 10
\* utils.QUANTITY_POST
QUANTITY_POST == 10
\* views.QUANTITY_POST (defined, never used by a view)
VIEWS_QUANTITY_POST == 5

\* --------------------------------------------------------------- universes

Users == {"u1", "u2"}
Anonymous == "anon"
Requesters == Users \cup {Anonymous}
Categories == {"c1"}
NoCategory == "none"
Slugs == Categories \cup {"nosuch"}
Usernames == Users \cup {"nobody"}
Titles == {"t1"}
Texts == {"x1"}
Methods == {"GET", "POST"}
PostIds == 1..MaxPosts
CommentIds == 1..MaxComments
Times == 0..MaxTime

VARIABLES posts, comments, next_post_pk, next_comment_pk,
          category_is_published, now, outbox, post_list, response

vars == <<posts, comments, next_post_pk, next_comment_pk,
          category_is_published, now, outbox, post_list, response>>

\* ------------------------------------------------------------------- forms

\* The fields of the post form that reach the model here: fields = ['title',
\* 'text', 'category', 'location', 'image', 'pub_date'] (views.py:97, 190).
\* A GET carries no form data; posted as it is, the empty form is the
\* invalid submission.
NoPostForm == [title |-> "", category |-> NoCategory, pub_date |-> 0]
PostForms ==
    [title : Titles, category : Categories \cup {NoCategory},
     pub_date : Times] \cup {NoPostForm}
PostFormsOf(method) == IF method = "POST" THEN PostForms ELSE {NoPostForm}

\* ModelForm validation: the required text fields must be non-empty.
PostForm_is_valid(form) == form.title # ""

CommentForm_is_valid_lax(text) == TRUE

\* CommentForm: fields = ('text',); an empty text is invalid.
CommentForm_is_valid(text) == text # ""

\* CommentUpdateView: fields = '__all__', i.e. text, author and post.
NoCommentEditForm == [text |-> "", author |-> "u1", post |-> 1]
CommentEditForms ==
    [text : Texts, author : Users, post : PostIds] \cup {NoCommentEditForm}

CommentEditForm_is_valid(form) ==
    form.text # "" /\ form.post \in DOMAIN posts

CommentEditFormsOf(method) ==
    IF method = "POST" THEN CommentEditForms ELSE {NoCommentEditForm}

\* --------------------------------------------------------------- responses

NoResponse ==
    [view |-> "none", method |-> "", user |-> "", pk |-> 0, arg |-> "",
     status |-> 0, location |-> "", loc_pk |-> 0, loc_user |-> "",
     form_author |-> "", items |-> <<>>, number |-> 0, num_pages |-> 0]

Request(view, method, user, pk, arg) ==
    [NoResponse EXCEPT !.view = view, !.method = method, !.user = user,
                       !.pk = pk, !.arg = arg]

render(r) == [r EXCEPT !.status = 200]
Http404(r) == [r EXCEPT !.status = 404]
PermissionDenied(r) == [r EXCEPT !.status = 403]
ServerError(r) == [r EXCEPT !.status = 500]
redirect(r, name, pk, user) ==
    [r EXCEPT !.status = 302, !.location = name, !.loc_pk = pk,
              !.loc_user = user]
redirect_to_login(r) == redirect(r, "login", 0, "")

is_authenticated(user) == user \in Users

\* --------------------------------------------------------------- paginator

PageParams ==
    {[kind |-> k, n |-> 0] : k \in {"none", "text", "last"}}
        \cup {[kind |-> "int", n |-> i] : i \in -1..MaxPage}

\* Paginator.num_pages with orphans = 0 and allow_empty_first_page = True:
\* hits = max(1, count - orphans); ceil(hits / per_page).
num_pages(count, per_page) ==
    LET hits == IF count > 1 THEN count ELSE 1
    IN  (hits + per_page - 1) \div per_page

\* Paginator.page(number): object_list[bottom:top].
page_items(object_list, per_page, number) ==
    LET count == Len(object_list)
        bottom == (number - 1) * per_page
        top == IF bottom + per_page >= count THEN count
               ELSE bottom + per_page
    IN  SubSeq(object_list, bottom + 1, top)

\* Paginator.validate_number: "ok", "PageNotAnInteger" or "EmptyPage".
validate_number(count, per_page, page) ==
    IF page.kind # "int" THEN "PageNotAnInteger"
    ELSE IF page.n < 1 THEN "EmptyPage"
    ELSE IF page.n > num_pages(count, per_page) THEN "EmptyPage"
    ELSE "ok"

page_response(r, object_list, per_page, number) ==
    [render(r) EXCEPT !.items = page_items(object_list, per_page, number),
                      !.number = number,
                      !.num_pages = num_pages(Len(object_list), per_page)]

\* Paginator.get_page: a page that is not an integer becomes page 1, a page
\* out of range becomes the last page.
get_page(r, object_list, per_page, page) ==
    LET count == Len(object_list)
        v == validate_number(count, per_page, page)
        number == IF v = "PageNotAnInteger" THEN 1
                  ELSE IF v = "EmptyPage" THEN num_pages(count, per_page)
                  ELSE page.n
    IN  page_response(r, object_list, per_page, number)

paginated_pages_views_quantity(r, object_list, page) ==
    get_page(r, object_list, VIEWS_QUANTITY_POST, page)

\* utils.paginated_pages
paginated_pages(r, object_list, page) ==
    get_page(r, object_list, QUANTITY_POST, page)

\* MultipleObjectMixin.paginate_queryset as ListView runs it with
\* paginate_by set: no page is page 1, 'last' is the last page, any other
\* text and any page out of range are a 404.
paginate_queryset(r, object_list, page_size, page) ==
    LET count == Len(object_list)
        p == IF page.kind = "none"
             THEN [kind |-> "int", n |-> 1]
             ELSE IF page.kind = "last"
             THEN [kind |-> "int", n |-> num_pages(count, page_size)]
             ELSE page
    IN  IF validate_number(count, page_size, p) = "ok"
        THEN page_response(r, object_list, page_size, p.n)
        ELSE Http404(r)

\* --------------------------------------------------------------- querysets

Range(f) == {f[i] : i \in DOMAIN f}

\* order_by('-pub_date'): every order of the rows with pub_date descending
\* (the order of rows with equal pub_date is the database's choice).
order_by_pub_date_desc(S) ==
    {f \in [1..Cardinality(S) -> S] :
        /\ Range(f) = S
        /\ \A i, j \in 1..Cardinality(S) :
              i < j => posts[f[i]].pub_date >= posts[f[j]].pub_date}

\* PostListView.get_queryset: the filter on category__is_published joins
\* the category table, so a post without a category is not selected.
PostListView_get_queryset ==
    {pk \in DOMAIN posts :
        /\ posts[pk].is_published
        /\ posts[pk].category # NoCategory
        /\ category_is_published[posts[pk].category]
        /\ posts[pk].pub_date <= now}

\* category_posts: PostListView().get_queryset().filter(category=category)
category_posts_queryset(category) ==
    {pk \in PostListView_get_queryset : posts[pk].category = category}

\* profile: Post.objects.filter(author=user)
profile_queryset(user) ==
    {pk \in DOMAIN posts : posts[pk].author = user}

\* ------------------------------------------------------------------- state

Init ==
    /\ posts = <<>>
    /\ comments = <<>>
    /\ next_post_pk = 1
    /\ next_comment_pk = 1
    /\ category_is_published \in [Categories -> BOOLEAN]
    /\ now = 0
    /\ outbox = <<>>
    /\ post_list = <<>>
    /\ response = NoResponse

\* A view that queries no listing answers with r and an empty post_list.
Respond(r) == response' = r /\ post_list' = <<>>

db == <<posts, comments, next_post_pk, next_comment_pk>>
env == <<category_is_published, now, outbox>>

\* ------------------------------------------------------ authorization guard

test_func_any_user(author, user) == TRUE

\* OnlyAuthorMixin.test_func: object.author == self.request.user
test_func(author, user) == author = user

\* AccessMixin.handle_no_permission: an authenticated user is refused with
\* PermissionDenied (403), an anonymous one is redirected to the login page.
handle_no_permission(r, user) ==
    IF is_authenticated(user) THEN PermissionDenied(r)
    ELSE redirect_to_login(r)

\* ------------------------------------------------------------ listing views

\* PostListView (routes '' and 'list/'): does not read request.user.
PostListView(page) ==
    /\ \E pl \in order_by_pub_date_desc(PostListView_get_queryset) :
          /\ post_list' = pl
          /\ response' = paginate_queryset(
                 Request("index", "GET", "", 0, ""), pl, paginate_by, page)
    /\ UNCHANGED <<db, env>>

\* category_posts
category_posts(category_slug, page) ==
    LET r == Request("category_posts", "GET", "", 0, category_slug) IN
    /\ IF category_slug \in Categories /\ category_is_published[category_slug]
       THEN \E pl \in order_by_pub_date_desc(
                          category_posts_queryset(category_slug)) :
               /\ post_list' = pl
               /\ response' = get_page(r, pl, 10, page)
       ELSE Respond(Http404(r))
    /\ UNCHANGED <<db, env>>

\* profile
profile(username, page) ==
    LET r == Request("profile", "GET", "", 0, username) IN
    /\ IF username \in Users
       THEN \E pl \in order_by_pub_date_desc(profile_queryset(username)) :
               /\ post_list' = pl
               /\ response' = get_page(r, pl, 10, page)
       ELSE Respond(Http404(r))
    /\ UNCHANGED <<db, env>>

\* -------------------------------------------------------------- post detail

detail_status_no_author_bypass(post, user) ==
    IF ~post.is_published THEN 404
    ELSE IF post.category = NoCategory THEN 500
    ELSE IF ~category_is_published[post.category] THEN 404
    ELSE IF post.pub_date > now THEN 404
    ELSE 200

\* PostDetailView.get_context_data: the status the checks of lines 120-125
\* end in. post.category.is_published on a post without a category raises
\* AttributeError, which the framework answers with the 500 page.
detail_status(post, user) ==
    IF post.author # user
    THEN IF ~post.is_published THEN 404
         ELSE IF post.category = NoCategory THEN 500
         ELSE IF ~category_is_published[post.category] THEN 404
         ELSE IF post.pub_date > now THEN 404
         ELSE 200
    ELSE 200

\* PostDetailView
PostDetailView(user, pk) ==
    LET r == Request("post_detail", "GET", user, pk, "") IN
    /\ IF pk \notin DOMAIN posts THEN Respond(Http404(r))
       ELSE Respond([r EXCEPT !.status = detail_status(posts[pk], user)])
    /\ UNCHANGED <<db, env>>

\* ------------------------------------------------------------ post creation

\* Post.is_published of a new post: the form does not carry the field, the
\* model's default decides, and the model leaves it open which it is.
Post_is_published_defaults == BOOLEAN

form_valid_author_from_request_data(data_author, user) == data_author

\* PostCreateView.form_valid: form.instance.author = self.request.user
form_valid_author(data_author, user) == user

\* utils.send_email_to_admin: one message to the administrator's address;
\* fail_silently=True drops the message when the transport fails.
send_email_to_admin(box, title, username, transport_ok) ==
    IF transport_ok
    THEN Append(box, [to |-> "admin_email@blogicum.not", title |-> title,
                      username |-> username])
    ELSE box

\* PostCreateView (LoginRequiredMixin, CreateView). form_valid saves the
\* post and redirects; it does not call send_email_to_admin. data_author is
\* an 'author' value the client adds to the posted data.
PostCreateView(user, method, form, data_author) ==
    LET r == [Request("create_post", method, user, 0, "")
                 EXCEPT !.form_author = IF method = "POST" THEN data_author
                                        ELSE ""] IN
    /\ IF ~is_authenticated(user)
       THEN Respond(redirect_to_login(r)) /\ UNCHANGED db
       ELSE IF method = "GET" \/ ~PostForm_is_valid(form)
       THEN Respond(render(r)) /\ UNCHANGED db
       ELSE /\ next_post_pk <= MaxPosts
            /\ \E flag \in Post_is_published_defaults :
                 posts' = [pk \in DOMAIN posts \cup {next_post_pk} |->
                    IF pk = next_post_pk
                    THEN [author |-> form_valid_author(data_author, user),
                          is_published |-> flag,
                          category |-> form.category,
                          pub_date |-> form.pub_date,
                          title |-> form.title]
                    ELSE posts[pk]]
            /\ next_post_pk' = next_post_pk + 1
            /\ Respond(redirect([r EXCEPT !.pk = next_post_pk],
                                "profile", 0, user))
            /\ UNCHANGED <<comments, next_comment_pk>>
    /\ UNCHANGED env

\* ----------------------------------------------------- post update / delete

\* PostUpdateView.dispatch, the condition of lines 200-201.
PostUpdateView_not_author(post, user) ==
    ~is_authenticated(user) \/ post.author # user

\* PostUpdateView
PostUpdateView(user, pk, method, form) ==
    LET r == Request("edit_post", method, user, pk, "") IN
    /\ IF pk \notin DOMAIN posts
       THEN Respond(Http404(r)) /\ UNCHANGED db
       ELSE IF PostUpdateView_not_author(posts[pk], user)
       THEN Respond(redirect(r, "post_detail", pk, "")) /\ UNCHANGED db
       ELSE IF ~test_func(posts[pk].author, user)
       THEN Respond(handle_no_permission(r, user)) /\ UNCHANGED db
       ELSE IF method = "GET" \/ ~PostForm_is_valid(form)
       THEN Respond(render(r)) /\ UNCHANGED db
       ELSE /\ posts' = [posts EXCEPT ![pk].title = form.title,
                                      ![pk].category = form.category,
                                      ![pk].pub_date = form.pub_date]
            /\ Respond(redirect(r, "post_detail", pk, ""))
            /\ UNCHANGED <<comments, next_post_pk, next_comment_pk>>
    /\ UNCHANGED env

\* The comments left when post pk is deleted: the deletion takes the post's
\* comments with it.
comments_without_post(pk) ==
    [c \in {c \in DOMAIN comments : comments[c].post # pk} |-> comments[c]]

\* PostDeleteView (OnlyAuthorMixin, DeleteView)
PostDeleteView(user, pk, method) ==
    LET r == Request("delete_post", method, user, pk, "") IN
    /\ IF pk \notin DOMAIN posts
       THEN Respond(Http404(r)) /\ UNCHANGED db
       ELSE IF ~test_func(posts[pk].author, user)
       THEN Respond(handle_no_permission(r, user)) /\ UNCHANGED db
       ELSE IF method = "GET"
       THEN Respond(render(r)) /\ UNCHANGED db
       ELSE /\ posts' = [p \in DOMAIN posts \ {pk} |-> posts[p]]
            /\ comments' = comments_without_post(pk)
            /\ Respond(redirect(r, "list", 0, ""))
            /\ UNCHANGED <<next_post_pk, next_comment_pk>>
    /\ UNCHANGED env

\* ---------------------------------------------------------------- comments

\* add_comment (login_required); the request method is not looked at, a
\* request without a text is the invalid form.
add_comment(user, post_id, text) ==
    LET r == Request("add_comment", "POST", user, post_id, "") IN
    /\ IF ~is_authenticated(user)
       THEN Respond(redirect_to_login(r)) /\ UNCHANGED db
       ELSE IF post_id \notin DOMAIN posts
       THEN Respond(Http404(r)) /\ UNCHANGED db
       ELSE IF ~CommentForm_is_valid(text)
       THEN Respond(redirect(r, "post_detail", post_id, "")) /\ UNCHANGED db
       ELSE /\ next_comment_pk <= MaxComments
            /\ comments' = [c \in DOMAIN comments \cup {next_comment_pk} |->
                  IF c = next_comment_pk
                  THEN [author |-> user, post |-> post_id, text |-> text]
                  ELSE comments[c]]
            /\ next_comment_pk' = next_comment_pk + 1
            /\ Respond(redirect(r, "post_detail", post_id, ""))
            /\ UNCHANGED <<posts, next_post_pk>>
    /\ UNCHANGED env

\* CommentUpdateView (OnlyAuthorMixin, UpdateView, fields = '__all__'); the
\* comment is looked up by pk alone: post_id of the path is never read, so
\* the request is told by pk.
CommentUpdateView(user, pk, method, form) ==
    LET r == Request("edit_comment", method, user, pk, "") IN
    /\ IF pk \notin DOMAIN comments
       THEN Respond(Http404(r)) /\ UNCHANGED db
       ELSE IF ~test_func(comments[pk].author, user)
       THEN Respond(handle_no_permission(r, user)) /\ UNCHANGED db
       ELSE IF method = "GET" \/ ~CommentEditForm_is_valid(form)
       THEN Respond(render(r)) /\ UNCHANGED db
       ELSE /\ comments' = [comments EXCEPT ![pk].text = form.text,
                                            ![pk].author = form.author,
                                            ![pk].post = form.post]
            /\ Respond(redirect(r, "post_detail", form.post, ""))
            /\ UNCHANGED <<posts, next_post_pk, next_comment_pk>>
    /\ UNCHANGED env

\* CommentDeleteView (OnlyAuthorMixin, DeleteView); post_id of the path is
\* never read.
CommentDeleteView(user, pk, method) ==
    LET r == Request("delete_comment", method, user, pk, "") IN
    /\ IF pk \notin DOMAIN comments
       THEN Respond(Http404(r)) /\ UNCHANGED db
       ELSE IF ~test_func(comments[pk].author, user)
       THEN Respond(handle_no_permission(r, user)) /\ UNCHANGED db
       ELSE IF method = "GET"
       THEN Respond(render(r)) /\ UNCHANGED db
       ELSE /\ comments' = [c \in DOMAIN comments \ {pk} |-> comments[c]]
            /\ Respond(redirect(r, "post_detail", comments[pk].post, ""))
            /\ UNCHANGED <<posts, next_post_pk, next_comment_pk>>
    /\ UNCHANGED env

\* ------------------------------------------------------ admin site and clock

\* admin.site.register(Category): the administrator sets a category's flag.
AdminSetCategoryPublished(category, flag) ==
    /\ category_is_published' =
           [category_is_published EXCEPT ![category] = flag]
    /\ Respond(Request("admin", "POST", "", 0, category))
    /\ UNCHANGED <<db, now, outbox>>

\* admin.site.register(Post): the administrator sets a post's is_published.
AdminSetPostPublished(pk, flag) ==
    /\ pk \in DOMAIN posts
    /\ posts' = [posts EXCEPT ![pk].is_published = flag]
    /\ Respond(Request("admin", "POST", "", pk, ""))
    /\ UNCHANGED <<comments, next_post_pk, next_comment_pk, env>>

\* Time passes between requests (timezone.now() / datetime.now()); the
\* response of the request before has been delivered by then.
Tick ==
    /\ now < MaxTime
    /\ now' = now + 1
    /\ Respond(NoResponse)
    /\ UNCHANGED <<db, category_is_published, outbox>>

\* --------------------------------------------------------- specifications

\* The page parameters the requests of Spec carry.
ListPageParams == {[kind |-> "none", n |-> 0], [kind |-> "int", n |-> 2]}

Next ==
    \/ \E page \in ListPageParams : PostListView(page)
    \/ \E slug \in Slugs, page \in ListPageParams : category_posts(slug, page)
    \/ \E name \in Usernames, page \in ListPageParams : profile(name, page)
    \/ \E u \in Requesters, pk \in PostIds : PostDetailView(u, pk)
    \/ \E u \in Requesters, m \in Methods :
          \E f \in PostFormsOf(m),
             a \in IF m = "POST" THEN Users ELSE {"u1"} :
                PostCreateView(u, m, f, a)
    \/ \E u \in Requesters, pk \in PostIds, m \in Methods :
          \E f \in PostFormsOf(m) : PostUpdateView(u, pk, m, f)
    \/ \E u \in Requesters, pk \in PostIds, m \in Methods :
          PostDeleteView(u, pk, m)
    \/ \E u \in Requesters, p \in PostIds, t \in Texts \cup {""} :
          add_comment(u, p, t)
    \/ \E u \in Requesters, pk \in CommentIds, m \in Methods :
          \E f \in CommentEditFormsOf(m) : CommentUpdateView(u, pk, m, f)
    \/ \E u \in Requesters, pk \in CommentIds, m \in Methods :
          CommentDeleteView(u, pk, m)
    \/ \E c \in Categories, b \in BOOLEAN : AdminSetCategoryPublished(c, b)
    \/ \E pk \in PostIds, b \in BOOLEAN : AdminSetPostPublished(pk, b)
    \/ Tick

Spec == Init /\ [][Next]_vars

\* Pagination alone: the listed posts are any list of 0..MaxListed rows and
\* the page parameter is any of PageParams.
InitPaginate ==
    /\ posts = <<>>
    /\ comments = <<>>
    /\ next_post_pk = 1
    /\ next_comment_pk = 1
    /\ category_is_published = [c \in Categories |-> TRUE]
    /\ now = 0
    /\ outbox = <<>>
    /\ post_list \in {[i \in 1..n |-> i] : n \in 0..MaxListed}
    /\ response = NoResponse

\* utils.paginated_pages applied to the list.
PaginatedPages(page) ==
    /\ response' = paginated_pages(
           Request("paginated_pages", "GET", "", 0, ""), post_list, page)
    /\ UNCHANGED <<db, env, post_list>>

\* ListView's pagination (paginate_by) applied to the list.
ListViewPaginate(page) ==
    /\ response' = paginate_queryset(
           Request("index", "GET", "", 0, ""), post_list, paginate_by, page)
    /\ UNCHANGED <<db, env, post_list>>

\* Paginator(post_list, 10).get_page of category_posts and profile.
GetPage(page) ==
    /\ response' = get_page(
           Request("get_page", "GET", "", 0, ""), post_list, 10, page)
    /\ UNCHANGED <<db, env, post_list>>

NextPaginate ==
    \/ \E page \in PageParams : PaginatedPages(page)
    \/ \E page \in PageParams : ListViewPaginate(page)
    \/ \E page \in PageParams : GetPage(page)

SpecPaginate == InitPaginate /\ [][NextPaginate]_vars

\* ------------------------------------------------------------------ claims
\* response describes the request handled by the step that led to the state;
\* a request that only reads leaves the rows as they were, so a predicate on
\* response and the rows speaks of the rows the request saw.

\* The public visibility rule as the specification words it.
publicly_visible(post) ==
    /\ post.is_published
    /\ post.category = NoCategory \/ category_is_published[post.category]
    /\ post.pub_date <= now

DetailOfExisting ==
    response.view = "post_detail" /\ response.pk \in DOMAIN posts

\* C1: a GET of the detail page by a requester who is not the post's author
\* returns the post iff the post is published, has no category or a published
\* one, and pub_date <= now; in every other case the answer is a 404.
C1_NonAuthorDetailFollowsVisibilityRule ==
    (DetailOfExisting /\ posts[response.pk].author # response.user)
        => IF publicly_visible(posts[response.pk])
           THEN response.status = 200
           ELSE response.status = 404

\* C5: a GET of the detail page by the post's author returns the post (200)
\* whatever is_published, the category's flag and pub_date are.
C5_AuthorAlwaysSeesOwnPost ==
    (DetailOfExisting /\ posts[response.pk].author = response.user)
        => response.status = 200

C5_AuthorSeesHiddenPost ==
    /\ DetailOfExisting
    /\ posts[response.pk].author = response.user
    /\ response.status = 200
    /\ ~posts[response.pk].is_published
    /\ posts[response.pk].category # NoCategory
    /\ ~category_is_published[posts[response.pk].category]
    /\ posts[response.pk].pub_date > now

\* C2: an edit or delete request (post edit, post delete, comment edit,
\* comment delete) by a requester who is not the author of the targeted post
\* or comment leaves that record as it was: same fields, still existing.
C2_NonAuthorRequestLeavesRecord ==
    [][/\ (/\ response'.view \in {"edit_post", "delete_post"}
           /\ response'.pk \in DOMAIN posts
           /\ posts[response'.pk].author # response'.user)
          => (/\ response'.pk \in DOMAIN posts'
              /\ posts'[response'.pk] = posts[response'.pk])
       /\ (/\ response'.view \in {"edit_comment", "delete_comment"}
           /\ response'.pk \in DOMAIN comments
           /\ comments[response'.pk].author # response'.user)
          => (/\ response'.pk \in DOMAIN comments'
              /\ comments'[response'.pk] = comments[response'.pk])]_vars

C2_NonAuthorPostedDelete ==
    /\ response.view \in {"delete_post", "delete_comment"}
    /\ response.method = "POST"
    /\ response.user \in Users
    /\ IF response.view = "delete_post"
       THEN /\ response.pk \in DOMAIN posts
            /\ posts[response.pk].author # response.user
       ELSE /\ response.pk \in DOMAIN comments
            /\ comments[response.pk].author # response.user

\* C3: the author of every existing post and comment is the user who created
\* it: a created record's author is the requester, and no request changes the
\* author of a record that exists before and after it.
C3_AuthorNeverReassigned ==
    [][/\ \A pk \in DOMAIN posts' :
             IF pk \in DOMAIN posts
             THEN posts'[pk].author = posts[pk].author
             ELSE posts'[pk].author = response'.user
       /\ \A c \in DOMAIN comments' :
             IF c \in DOMAIN comments
             THEN comments'[c].author = comments[c].author
             ELSE comments'[c].author = response'.user]_vars

\* C4: a valid post submission by an authenticated user A persists exactly
\* one new post whose author is A, whatever author value the posted data
\* carries, and redirects to A's profile; a submission by an unauthenticated
\* requester is redirected to the login route and creates no post.
C4_PostCreation ==
    [][(response'.view = "create_post" /\ response'.method = "POST")
       => \A f \in PostForms :
            PostCreateView(response'.user, "POST", f, response'.form_author)
            => IF response'.user \notin Users
               THEN /\ response'.status = 302
                    /\ response'.location = "login"
                    /\ posts' = posts
               ELSE f.title # ""
                    => /\ response'.status = 302
                       /\ response'.location = "profile"
                       /\ response'.loc_user = response'.user
                       /\ \E pk \in PostIds \ DOMAIN posts :
                            /\ DOMAIN posts' = DOMAIN posts \cup {pk}
                            /\ posts'[pk].author = response'.user
                            /\ \A q \in DOMAIN posts : posts'[q] = posts[q]
      ]_vars

C4_SpoofedAuthorIgnored ==
    /\ response.view = "create_post"
    /\ response.method = "POST"
    /\ response.status = 302
    /\ response.location = "profile"
    /\ response.form_author \in Users \ {response.user}
    /\ response.pk \in DOMAIN posts
    /\ posts[response.pk].author = response.user

\* C6: on the post edit route and on the post delete route, a request by
\* anyone but the post's author (authenticated or not) is answered with a
\* redirect to that post's detail page, and the post still exists.
C6_NonAuthorRedirectedToDetail ==
    (/\ response.view \in {"edit_post", "delete_post"}
     /\ response.pk \in DOMAIN posts
     /\ posts[response.pk].author # response.user)
        => /\ response.status = 302
           /\ response.location = "post_detail"
           /\ response.loc_pk = response.pk

\* The posts a listing is about.
listing_scope ==
    IF response.view = "index" THEN DOMAIN posts
    ELSE IF response.view = "category_posts"
    THEN {pk \in DOMAIN posts : posts[pk].category = response.arg}
    ELSE {pk \in DOMAIN posts : posts[pk].author = response.arg}

\* C7: each of the three listings (index, category, profile) lists exactly
\* the posts of its scope that satisfy the public visibility rule, ordered
\* by pub_date descending.
C7_ListingsShowExactlyVisiblePosts ==
    (/\ response.view \in {"index", "category_posts", "profile"}
     /\ response.status = 200)
        => /\ Range(post_list) =
                 {pk \in listing_scope : publicly_visible(posts[pk])}
           /\ \A i, j \in DOMAIN post_list :
                 i < j => posts[post_list[i]].pub_date
                              >= posts[post_list[j]].pub_date

\* C8: add_comment by an authenticated user on an existing post always
\* redirects to that post's detail page; with a valid form exactly one
\* comment is created, its author the requester and its post the post of the
\* path; with an invalid (empty) form the comments are left as they were.
C8_CommentCreation ==
    [][(/\ response'.view = "add_comment"
        /\ response'.user \in Users
        /\ response'.pk \in DOMAIN posts)
       => \A t \in Texts \cup {""} :
            add_comment(response'.user, response'.pk, t)
            => /\ response'.status = 302
               /\ response'.location = "post_detail"
               /\ response'.loc_pk = response'.pk
               /\ IF t # ""
                  THEN \E c \in CommentIds \ DOMAIN comments :
                         /\ DOMAIN comments' = DOMAIN comments \cup {c}
                         /\ comments'[c].author = response'.user
                         /\ comments'[c].post = response'.pk
                         /\ \A d \in DOMAIN comments :
                               comments'[d] = comments[d]
                  ELSE comments' = comments
      ]_vars

C8_CommentCreated ==
    /\ response.view = "add_comment"
    /\ response.status = 302
    /\ response.location = "post_detail"
    /\ next_comment_pk - 1 \in DOMAIN comments
    /\ comments[next_comment_pk - 1].author = response.user
    /\ comments[next_comment_pk - 1].post = response.pk

\* C9: every successful post creation sends an email about the new post to
\* the administrator's address.
C9_CreationNotifiesAdmin ==
    (/\ response.view = "create_post"
     /\ response.status = 302
     /\ response.location = "profile")
        => \E i \in DOMAIN outbox :
              outbox[i].to = "admin_email@blogicum.not"

\* ceil(count / size) = n
is_ceil(n, count, size) == n * size >= count /\ (n - 1) * size < count

PageReturned ==
    /\ response.view \in {"index", "paginated_pages", "get_page",
                          "category_posts", "profile"}
    /\ response.status = 200

\* C10 as stated: for every count of listed posts, zero included, the page
\* returned holds at most the page size of posts and the number of pages is
\* ceil(listed_count / page_size).
C10_PagesAreCeilOfCount ==
    PageReturned
        => /\ Len(response.items) <= paginate_by
           /\ is_ceil(response.num_pages, Len(post_list), paginate_by)

\* C10 amended: the page returned holds at most the page size of posts, and
\* the number of pages is ceil(listed_count / page_size) for a non-empty
\* listing and 1 (one empty page) for an empty listing.
C10_PagesAreCeilOfCountOrOne ==
    PageReturned
        => /\ Len(response.items) <= paginate_by
           /\ IF Len(post_list) = 0 THEN response.num_pages = 1
              ELSE is_ceil(response.num_pages, Len(post_list), paginate_by)

C10_LastPageOfThree ==
    /\ PageReturned
    /\ Len(post_list) = 2 * paginate_by + 1
    /\ response.num_pages = 3
    /\ response.number = 3
    /\ Len(response.items) = 1

====
